---- MODULE Spec2Model ----
(***************************************************************************)
(* Model of the linear-system solver: vector.py, line.py, plane.py and     *)
(* linear_system.py.                                                       *)
(*                                                                         *)
(* Numbers are exact rationals <<n, d>> (d > 0, lowest terms): the         *)
(* arithmetic the code performs on int / fractions.Fraction coordinates.   *)
(* Binary floating-point rounding is not represented.  Every number of the *)
(* model has numerator and denominator far below 10^10, so on these values *)
(* a number is near zero (abs(val) < 1e-10) exactly when it is zero.       *)
(*                                                                         *)
(* Hyperplane objects live in objs (object id -> fields) and Python lists  *)
(* of hyperplanes in lists (list id -> sequence of object ids), so that    *)
(* copying, aliasing and row replacement are decided by the modelled code. *)
(* Columns and rows are 0-based as in the source; At(s, i) reads s[i].     *)
(***************************************************************************)
EXTENDS Integers, Sequences, FiniteSets

VARIABLES objs, lists, engine, ret, nops

vars == <<objs, lists, engine, ret, nops>>

\* ------------------------------------------------------------------ bounds
MaxRows == 3        \* rows of a well-formed system (normals as long as the dimension)
MaxOddRows == 2     \* rows of a system with a normal of another length
MaxCoef == 1        \* normal coordinates are drawn from 0..MaxCoef
MaxConst == 1       \* constant terms are drawn from 0..MaxConst
MaxNormalLen == 3   \* longest normal vector passed to a constructor
MaxOps == 1         \* row-primitive calls made on the engine by the caller
MaxSeqOps == 2      \* row-primitive calls in a row on a system of well-formed rows
MaxOpRows == 2      \* rows of a system the caller applies row primitives to
MaxOpCoef == 2      \* the caller's row-primitive coefficients are drawn from -1..MaxOpCoef

\* ------------------------------------------------------- program constants
LineDimension == 2
PlaneDimension == 3
EpsRoot == 100000   \* eps = 1e-10 = 1 / (EpsRoot * EpsRoot)

\* None (an absent argument, an unset basepoint): the empty tuple, which no
\* Vector can hold (Vector raises on empty coordinates)
None == <<>>
NoExc == "none"
NO_NONZERO_ELTS_FOUND_MSG == "No nonzero elements found"
ALL_PLANES_MUST_BE_IN_SAME_DIM_MSG == "All planes in the system should live in the same dimension"
NO_SOLUTIONS_MSG == "No solutions"
IndexError == "IndexError"
TypeError == "TypeError"
ZeroDivisionError == "ZeroDivisionError"

\* ------------------------------------------------------------ arithmetic
Abs(n) == IF n < 0 THEN -n ELSE n

RECURSIVE GCD(_, _)
GCD(a, b) == IF b = 0 THEN a ELSE GCD(b, a % b)

Rat(n, d) ==
    LET g == GCD(Abs(n), Abs(d))
        s == IF d < 0 THEN -1 ELSE 1
    IN  <<s * (n \div g), s * (d \div g)>>

Zero == <<0, 1>>
One == <<1, 1>>
RInt(k) == <<k, 1>>

RAdd(a, b) == Rat(a[1] * b[2] + b[1] * a[2], a[2] * b[2])
RMul(a, b) == Rat(a[1] * b[1], a[2] * b[2])
RNeg(a) == <<-a[1], a[2]>>
\* a / b for b # 0 (the callers raise ZeroDivisionError first)
RDiv(a, b) == Rat(a[1] * b[2], a[2] * b[1])

At(s, i) == s[i + 1]

\* abs(val) < eps with eps = 1e-10:  |n| / d < 1 / 10^10  <=>  |n| * 10^10 <= d - 1
is_near_zero(val) == Abs(val[1]) <= ((val[2] - 1) \div EpsRoot) \div EpsRoot

\* ---------------------------------------------------------------- Vector
VecScale(v, n) == [k \in 1..Len(v) |-> RMul(v[k], n)]

VecAdd(v, w) == [k \in 1..Len(v) |-> RAdd(v[k], w[k])]

RECURSIVE SumTo(_, _)
SumTo(f, n) == IF n = 0 THEN Zero ELSE RAdd(SumTo(f, n - 1), f[n])

Min(a, b) == IF a < b THEN a ELSE b

\* zip() stops at the shorter of the two coordinate tuples
dot(v, w) == SumTo([k \in 1..Min(Len(v), Len(w)) |-> RMul(v[k], w[k])], Min(Len(v), Len(w)))

\* ------------------------------------------------------------ Line, Plane
\* index of the first coordinate that is not near zero, -1 when the code
\* raises Exception(NO_NONZERO_ELTS_FOUND_MSG)
first_nonzero_index(iterable) ==
    LET nz == {k \in 0..(Len(iterable) - 1) : ~is_near_zero(At(iterable, k))}
    IN  IF nz = {} THEN -1 ELSE CHOOSE k \in nz : \A l \in nz : k <= l

\* Line.set_basepoint with self.dimension = dim: the basepoint, None for a
\* zero normal, or the IndexError of basepoint_coords[initial_index] = ...
set_basepoint(n, c, dim) ==
    LET initial_index == first_nonzero_index(n)
    IN  IF initial_index < 0 THEN [exc |-> NoExc, basepoint |-> None]
        ELSE IF initial_index >= dim THEN [exc |-> IndexError, basepoint |-> None]
        ELSE [exc |-> NoExc,
              basepoint |-> [k \in 1..dim |->
                                IF k = initial_index + 1
                                THEN RDiv(c, At(n, initial_index)) ELSE Zero]]

\* Line.__init__: the new object's fields, or the exception it raises
LineInit(normal_vector, constant_term) ==
    LET n == IF normal_vector = None THEN [k \in 1..LineDimension |-> Zero]
             ELSE normal_vector
        c == IF constant_term = None THEN Zero ELSE constant_term
        b == set_basepoint(n, c, LineDimension)
    IN  [exc |-> b.exc,
         obj |-> [cls |-> "Line", normal_vector |-> n, constant_term |-> c,
                  dimension |-> LineDimension, basepoint |-> b.basepoint]]

\* Plane.__init__: Line.__init__, then self.dimension = 3
PlaneInit(normal_vector, constant_term) ==
    [LineInit(normal_vector, constant_term) EXCEPT !.obj.cls = "Plane",
                                                   !.obj.dimension = PlaneDimension]

\* ------------------------------------------------------------- the heap
\* A machine state m threaded through the methods: m.objs (hyperplane
\* objects by id), m.lists (Python lists by id), m.exc (the exception being
\* raised, NoExc when none) and m.divs (the divisors the elimination used).
\* A LinearSystem object sys is [planes |-> list id, dimension |-> d].
\* A statement reached while an exception propagates does nothing.
Raise(m, e) == [m EXCEPT !.exc = e]

Rows(m, sys) == m.lists[sys.planes]

\* LinearSystem.__len__
len(m, sys) == Len(Rows(m, sys))

\* LinearSystem.__getitem__
getitem(m, sys, i) == m.objs[At(Rows(m, sys), i)]

\* self[i].normal_vector.coordinates
coordinates(m, sys, i) == getitem(m, sys, i).normal_vector

\* LinearSystem.__setitem__: x is the id of the object assigned
setitem(m, sys, i, x) ==
    IF m.exc # NoExc THEN m
    ELSE IF m.objs[x].dimension = sys.dimension
    THEN [m EXCEPT !.lists[sys.planes][i + 1] = x]
    ELSE Raise(m, ALL_PLANES_MUST_BE_IN_SAME_DIM_MSG)

\* the evaluation of Plane(normal_vector=..., constant_term=...) in a row
\* primitive: made is what Plane.__init__ yields, the new object gets the
\* next id
AllocPlane(m, made) ==
    IF made.exc # NoExc THEN Raise(m, made.exc)
    ELSE [m EXCEPT !.objs = Append(@, made.obj)]

\* ------------------------------------------------------- row primitives
\* the rows stay where they are
KeepRows(m, sys, row1, row2) == m

\* self[row1], self[row2] = self[row2], self[row1]
swap_rows(m, sys, row1, row2) ==
    LET a == At(Rows(m, sys), row2)
        b == At(Rows(m, sys), row1)
    IN  setitem(setitem(m, sys, row1, a), sys, row2, b)

\* self.planes[row] = <the plane just built>: no dimension check
AssignNewPlane(m, sys, row) ==
    IF m.exc # NoExc THEN m
    ELSE [m EXCEPT !.lists[sys.planes][row + 1] = Len(m.objs)]

multiply_coefficient_and_row(m, sys, coefficient, row) ==
    LET n == getitem(m, sys, row).normal_vector
        k == getitem(m, sys, row).constant_term
    IN  AssignNewPlane(AllocPlane(m, PlaneInit(VecScale(n, coefficient), RMul(k, coefficient))),
                       sys, row)

\* self[row_to_be_added_to] = <the plane just built>
SetNewPlane(m, sys, row_to_be_added_to) ==
    IF m.exc # NoExc THEN m
    ELSE setitem(m, sys, row_to_be_added_to, Len(m.objs))

add_multiple_times_row_to_row(m, sys, coefficient, row_to_add, row_to_be_added_to) ==
    LET n1 == getitem(m, sys, row_to_add).normal_vector
        n2 == getitem(m, sys, row_to_be_added_to).normal_vector
        k1 == getitem(m, sys, row_to_add).constant_term
        k2 == getitem(m, sys, row_to_be_added_to).constant_term
    IN  IF Len(n1) # Len(n2) THEN Raise(m, TypeError)
        ELSE SetNewPlane(AllocPlane(m, PlaneInit(VecAdd(VecScale(n1, coefficient), n2),
                                                  RAdd(RMul(k1, coefficient), k2))),
                         sys, row_to_be_added_to)

indices_of_first_nonzero_terms_in_each_row(m, sys) ==
    [i \in 1..len(m, sys) |-> first_nonzero_index(coordinates(m, sys, i - 1))]

\* ------------------------------------------------------ triangular form
\* a search that gives up at once
SearchFails(m, sys, row_above, coefficient, i) == [m |-> m, is_swapped |-> FALSE]

RECURSIVE SwapSearch(_, _, _, _, _)
\* the loop of swap_with_row_below_for_nonzero_coefficient from row i on
SwapSearch(m, sys, row_above, coefficient, i) ==
    IF i >= len(m, sys) THEN [m |-> m, is_swapped |-> FALSE]
    ELSE IF coefficient >= Len(coordinates(m, sys, i))
    THEN [m |-> Raise(m, IndexError), is_swapped |-> FALSE]
    ELSE IF ~is_near_zero(At(coordinates(m, sys, i), coefficient))
    THEN [m |-> swap_rows(m, sys, row_above, i), is_swapped |-> TRUE]
    ELSE SwapSearch(m, sys, row_above, coefficient, i + 1)

\* a search that never finds a row to swap with
NeverSwap(m, sys, row_above, coefficient) == [m |-> m, is_swapped |-> FALSE]

swap_with_row_below_for_nonzero_coefficient(m, sys, row_above, coefficient) ==
    SwapSearch(m, sys, row_above, coefficient, row_above)

\* self.add_multiple_times_row_to_row(-row_coef / curr_coef, row, i)
Eliminate(m, sys, row_coef, curr_coef, row, i) ==
    IF curr_coef = Zero THEN Raise(m, ZeroDivisionError)
    ELSE add_multiple_times_row_to_row([m EXCEPT !.divs = @ \cup {curr_coef}], sys,
                                       RDiv(RNeg(row_coef), curr_coef), row, i)

RECURSIVE ClearLoop(_, _, _, _, _, _, _)
\* the for loop of clear_coefficients_below (step 1) and of
\* clear_coefficients_above (step -1), at row i
ClearLoop(m, sys, row, coefficient, curr_coef, i, step) ==
    IF m.exc # NoExc \/ i < 0 \/ i >= len(m, sys) THEN m
    ELSE IF coefficient >= Len(coordinates(m, sys, i)) THEN Raise(m, IndexError)
    ELSE IF is_near_zero(At(coordinates(m, sys, i), coefficient))
    THEN ClearLoop(m, sys, row, coefficient, curr_coef, i + step, step)
    ELSE ClearLoop(Eliminate(m, sys, At(coordinates(m, sys, i), coefficient), curr_coef, row, i),
                   sys, row, coefficient, curr_coef, i + step, step)

\* the rows below are left as they are
LeaveCoefficientsBelow(m, sys, row, coefficient) == m

clear_coefficients_below(m, sys, row, coefficient) ==
    IF m.exc # NoExc THEN m
    ELSE IF coefficient >= Len(coordinates(m, sys, row)) THEN Raise(m, IndexError)
    ELSE ClearLoop(m, sys, row, coefficient, At(coordinates(m, sys, row), coefficient),
                   row + 1, 1)

clear_coefficients_above(m, sys, row, coefficient) ==
    IF m.exc # NoExc THEN m
    ELSE IF coefficient >= Len(coordinates(m, sys, row)) THEN Raise(m, IndexError)
    ELSE ClearLoop(m, sys, row, coefficient, At(coordinates(m, sys, row), coefficient),
                   row - 1, -1)

\* a copy one level deep: a new list holding the same objects
ShallowCopy(m, sys) ==
    [m   |-> [m EXCEPT !.lists = Append(@, Rows(m, sys))],
     sys |-> [planes |-> Len(m.lists) + 1, dimension |-> sys.dimension]]

\* deepcopy(self): a new list holding a new object for every object of
\* self.planes (one copy per object, as deepcopy's memo does)
deepcopy(m, sys) ==
    LET items == Rows(m, sys)
        first(k) == CHOOSE l \in 1..k : items[l] = items[k] /\ \A h \in 1..(l - 1) : items[h] # items[k]
        firsts == {k \in 1..Len(items) : first(k) = k}
        rank(k) == Cardinality({l \in firsts : l <= first(k)})
        nth(r) == CHOOSE k \in firsts : rank(k) = r
        base == Len(m.objs)
    IN  [m   |-> [m EXCEPT !.objs = @ \o [r \in 1..Cardinality(firsts) |-> m.objs[items[nth(r)]]],
                           !.lists = Append(@, SubSeq([k \in 1..Len(items) |-> base + rank(k)],
                                                      1, Len(items)))],
         sys |-> [planes |-> Len(m.lists) + 1, dimension |-> sys.dimension]]

RECURSIVE TriangularLoop(_, _, _, _)
\* the loops of compute_triangular_form at row `row` with column cursor j
TriangularLoop(m, sys, row, j) ==
    IF m.exc # NoExc \/ row >= len(m, sys) \/ j >= sys.dimension THEN m
    ELSE IF j >= Len(coordinates(m, sys, row)) THEN Raise(m, IndexError)
    ELSE IF is_near_zero(At(coordinates(m, sys, row), j))
    THEN LET s == swap_with_row_below_for_nonzero_coefficient(m, sys, row, j)
         IN  IF s.m.exc # NoExc THEN s.m
             ELSE IF ~s.is_swapped THEN TriangularLoop(s.m, sys, row, j + 1)
             ELSE TriangularLoop(clear_coefficients_below(s.m, sys, row, j), sys, row + 1, j + 1)
    ELSE TriangularLoop(clear_coefficients_below(m, sys, row, j), sys, row + 1, j + 1)

\* returns the machine state and the new system
compute_triangular_form(m, sys) ==
    LET c == deepcopy(m, sys)
    IN  [m |-> TriangularLoop(c.m, c.sys, 0, 0), sys |-> c.sys]

\* ----------------------------------------------------------------- RREF
\* the row is left unscaled
LeaveRowUnscaled(m, sys, row, coefficient) == m

scale_row_to_make_coefficient_equal_to_one(m, sys, row, coefficient) ==
    IF coefficient >= Len(coordinates(m, sys, row)) THEN Raise(m, IndexError)
    ELSE IF At(coordinates(m, sys, row), coefficient) = Zero THEN Raise(m, ZeroDivisionError)
    ELSE multiply_coefficient_and_row(
             [m EXCEPT !.divs = @ \cup {At(coordinates(m, sys, row), coefficient)}], sys,
             RDiv(One, At(coordinates(m, sys, row), coefficient)), row)

RECURSIVE RrefLoop(_, _, _, _)
\* for row in range(num_equations-1, -1, -1)
RrefLoop(m, tf, pivot_indices, row) ==
    IF m.exc # NoExc \/ row < 0 THEN m
    ELSE IF At(pivot_indices, row) < 0 THEN RrefLoop(m, tf, pivot_indices, row - 1)
    ELSE RrefLoop(clear_coefficients_above(
                      scale_row_to_make_coefficient_equal_to_one(m, tf, row,
                                                                 At(pivot_indices, row)),
                      tf, row, At(pivot_indices, row)),
                  tf, pivot_indices, row - 1)

\* compute_rref after tf = self.compute_triangular_form(): t is [m, sys]
ReduceTriangularForm(t) ==
    [m   |-> RrefLoop(t.m, t.sys, indices_of_first_nonzero_terms_in_each_row(t.m, t.sys),
                      len(t.m, t.sys) - 1),
     sys |-> t.sys]

compute_rref(m, sys) == ReduceTriangularForm(compute_triangular_form(m, sys))

\* ------------------------------------------------------------- solution
\* raises NO_SOLUTIONS_MSG when a row without a pivot has a constant term
\* that is not near zero
raise_exception_if_contradictory_equations(m, sys) ==
    IF m.exc # NoExc THEN m
    ELSE IF \E i \in 0..(len(m, sys) - 1) :
                /\ first_nonzero_index(coordinates(m, sys, i)) < 0
                /\ ~is_near_zero(getitem(m, sys, i).constant_term)
    THEN Raise(m, NO_SOLUTIONS_MSG)
    ELSE m

RECURSIVE DirectionLoop(_, _, _, _, _, _)
\* for i, p in enumerate(self.planes) of extract_direction_vectors_...:
\* [exc, coords] after the rows from i on
DirectionLoop(m, sys, pivot_indices, free_var, vector_coords, i) ==
    IF i >= len(m, sys) \/ At(pivot_indices, i) < 0
    THEN [exc |-> NoExc, coords |-> vector_coords]
    ELSE IF free_var >= Len(coordinates(m, sys, i)) \/ At(pivot_indices, i) >= Len(vector_coords)
    THEN [exc |-> IndexError, coords |-> vector_coords]
    ELSE DirectionLoop(m, sys, pivot_indices, free_var,
                       [vector_coords EXCEPT ![At(pivot_indices, i) + 1] =
                            RNeg(At(coordinates(m, sys, i), free_var))],
                       i + 1)

\* the free columns in ascending order (the order CPython iterates a set of
\* small non-negative ints)
FreeVariables(num_variables, pivot_indices) ==
    LET free == (0..(num_variables - 1)) \ {pivot_indices[i] : i \in DOMAIN pivot_indices}
        nth(r) == CHOOSE f \in free : Cardinality({g \in free : g <= f}) = r
    IN  [r \in 1..Cardinality(free) |-> nth(r)]

\* the direction vectors given the pivot columns: [exc, vectors], exc the
\* exception of the first free column whose loop raises
DirectionVectors(m, sys, pivot_indices, free_variables_indices) ==
    LET one(free_var) ==
            DirectionLoop(m, sys, pivot_indices, free_var,
                          SubSeq([k \in 1..sys.dimension |->
                                     IF k = free_var + 1 THEN One ELSE Zero],
                                 1, sys.dimension), 0)
    IN  IF \E r \in DOMAIN free_variables_indices : one(free_variables_indices[r]).exc # NoExc
        THEN [exc |-> IndexError, vectors |-> <<>>]
        ELSE [exc |-> NoExc,
              vectors |-> [r \in DOMAIN free_variables_indices |->
                              one(free_variables_indices[r]).coords]]

extract_direction_vectors_for_parametrization(m, sys) ==
    DirectionVectors(m, sys, indices_of_first_nonzero_terms_in_each_row(m, sys),
                     FreeVariables(sys.dimension,
                                   indices_of_first_nonzero_terms_in_each_row(m, sys)))

RECURSIVE BasepointLoop(_, _, _, _, _)
BasepointLoop(m, sys, pivot_indices, basepoint_coords, i) ==
    IF i >= len(m, sys) \/ At(pivot_indices, i) < 0
    THEN [exc |-> NoExc, coords |-> basepoint_coords]
    ELSE IF At(pivot_indices, i) >= Len(basepoint_coords)
    THEN [exc |-> IndexError, coords |-> basepoint_coords]
    ELSE BasepointLoop(m, sys, pivot_indices,
                       [basepoint_coords EXCEPT ![At(pivot_indices, i) + 1] =
                            getitem(m, sys, i).constant_term],
                       i + 1)

\* the basepoint left at the origin
OriginBasepoint(m, sys) ==
    [exc |-> NoExc, coords |-> SubSeq([k \in 1..sys.dimension |-> Zero], 1, sys.dimension)]

extract_basepoint_for_parametrization(m, sys) ==
    BasepointLoop(m, sys, indices_of_first_nonzero_terms_in_each_row(m, sys),
                  SubSeq([k \in 1..sys.dimension |-> Zero], 1, sys.dimension), 0)

\* what a call hands back to the caller
Result(call, kind, m, planes, dimension, basepoint, direction_vectors) ==
    [call |-> call, kind |-> kind, exc |-> m.exc, planes |-> planes, dimension |-> dimension,
     basepoint |-> basepoint, direction_vectors |-> direction_vectors, divs |-> m.divs]

Raised(call, m) == Result(call, "raise", m, 0, 0, None, <<>>)

\* Parametrization.__init__
Parametrization(call, m, basepoint, direction_vectors) ==
    IF \E r \in DOMAIN direction_vectors : Len(direction_vectors[r]) # Len(basepoint)
    THEN Raised(call, Raise(m, "The basepoint and direction vectors should all live in the same dimension"))
    ELSE Result(call, "Parametrization", m, 0, Len(basepoint), basepoint, direction_vectors)

\* return Parametrization(basepoint, direction_vectors), or the exception
\* one of the two extractions raised
ReturnParametrization(m, direction_vectors, basepoint, call) ==
    IF direction_vectors.exc # NoExc
    THEN [m |-> Raise(m, direction_vectors.exc),
          ret |-> Raised(call, Raise(m, direction_vectors.exc))]
    ELSE IF basepoint.exc # NoExc
    THEN [m |-> Raise(m, basepoint.exc), ret |-> Raised(call, Raise(m, basepoint.exc))]
    ELSE [m |-> m, ret |-> Parametrization(call, m, basepoint.coords, direction_vectors.vectors)]

\* do_gaussian_elimination_and_parametrize_solution after
\* rref.raise_exception_if_contradictory_equations() left the machine in m;
\* sys is rref
ParametrizeSolution(m, sys, call) ==
    IF m.exc # NoExc THEN [m |-> m, ret |-> Raised(call, m)]
    ELSE ReturnParametrization(m, extract_direction_vectors_for_parametrization(m, sys),
                               extract_basepoint_for_parametrization(m, sys), call)

\* do_gaussian_elimination_and_parametrize_solution after
\* rref = self.compute_rref(): r is [m, sys]
ParametrizeRref(r, call) ==
    ParametrizeSolution(raise_exception_if_contradictory_equations(r.m, r.sys), r.sys, call)

\* [m, ret]: the machine state after the call and what the call returns
do_gaussian_elimination_and_parametrize_solution(m, sys, call) ==
    ParametrizeRref(compute_rref(m, sys), call)

\* the except clause of compute_solution: r is what the try block yields
ExceptNoSolutions(r) ==
    IF r.ret.exc = NO_SOLUTIONS_MSG
    THEN [m |-> Raise(r.m, NoExc),
          ret |-> Result("compute_solution", NO_SOLUTIONS_MSG, Raise(r.m, NoExc), 0, 0, None, <<>>)]
    ELSE r

compute_solution(m, sys) ==
    ExceptNoSolutions(do_gaussian_elimination_and_parametrize_solution(m, sys, "compute_solution"))

\* a constructor that takes the dimension of the first row and checks none
UncheckedInit(m, l) ==
    IF m.lists[l] = <<>> THEN [exc |-> IndexError, sys |-> [planes |-> 0, dimension |-> 0]]
    ELSE [exc |-> NoExc, sys |-> [planes |-> l, dimension |-> m.objs[m.lists[l][1]].dimension]]

\* LinearSystem.__init__(planes) on the list with id l: [exc, sys]
LinearSystemInit(m, l) ==
    IF m.lists[l] = <<>> THEN [exc |-> IndexError, sys |-> [planes |-> 0, dimension |-> 0]]
    ELSE LET d == m.objs[m.lists[l][1]].dimension
         IN  IF \E k \in DOMAIN m.lists[l] : m.objs[m.lists[l][k]].dimension # d
             THEN [exc |-> ALL_PLANES_MUST_BE_IN_SAME_DIM_MSG,
                   sys |-> [planes |-> 0, dimension |-> 0]]
             ELSE [exc |-> NoExc, sys |-> [planes |-> l, dimension |-> d]]

\* ------------------------------------------------------ the caller's view
\* The objects the caller can still reach after a call: the hyperplanes it
\* built (ids 1..n, n the length of its list), the rows of its list (list 1,
\* which the engine holds) and the rows of the returned system (list rl, 0
\* when the call returned no system).  Everything else is freed; the ids of
\* what is kept are renumbered in that order.
Reachable(m, rl) ==
    LET n == Len(m.lists[1])
        order == [k \in 1..n |-> k] \o m.lists[1] \o (IF rl > 1 THEN m.lists[rl] ELSE <<>>)
        firsts == {f \in DOMAIN order : \A h \in 1..(f - 1) : order[h] # order[f]}
        rank(p) == Cardinality({g \in firsts : g <= p})
        nth(r) == CHOOSE q \in firsts : rank(q) = r
        where(x) == CHOOSE w \in firsts : order[w] = x
        newid(y) == rank(where(y))
        relabel(l) == SubSeq([i \in DOMAIN l |-> newid(l[i])], 1, Len(l))
    IN  [objs  |-> SubSeq([t \in 1..Cardinality(firsts) |-> m.objs[order[nth(t)]]],
                          1, Cardinality(firsts)),
         lists |-> <<relabel(m.lists[1])>> \o
                   (IF rl > 1 THEN <<relabel(m.lists[rl])>> ELSE <<>>),
         planes |-> IF rl > 1 THEN 2 ELSE rl]

\* the machine state a call starts from
M == [objs |-> objs, lists |-> lists, exc |-> NoExc, divs |-> {}]

NoEngine == [planes |-> 0, dimension |-> 0]
NoResult == Result("none", "none", M, 0, 0, None, <<>>)

Init ==
    /\ objs = <<>>
    /\ lists = << <<>> >>
    /\ engine = NoEngine
    /\ ret = NoResult
    /\ nops = 0

\* ---------------------------------------------------------------- inputs
Coefs == {RInt(k) : k \in 0..MaxCoef}
Consts == {None} \cup {RInt(k) : k \in 0..MaxConst}
NormalArgs == {None} \cup UNION {[1..l -> Coefs] : l \in LineDimension..MaxNormalLen}
OpCoefs == {RInt(k) : k \in (-1)..MaxOpCoef}

\* every row is of class cls with a normal as long as the class's dimension
WellFormed(os) ==
    \E cls \in {"Line", "Plane"} :
        \A k \in DOMAIN os : /\ os[k].cls = cls
                             /\ Len(os[k].normal_vector) = os[k].dimension

\* the caller's list may take the new object o: it stays within the bounds
Admits(o, maxRows, maxOddRows) ==
    LET os == [k \in 1..Len(lists[1]) |-> objs[lists[1][k]]] \o <<o>>
    IN  /\ Len(os) <= maxRows
        /\ Len(os) <= maxOddRows \/ WellFormed(os)

\* ---------------------------------------------------------------- actions
\* the caller builds a hyperplane and appends it to its list
NewHyperplane(cls, made) ==
    /\ engine = NoEngine
    /\ nops' = nops /\ engine' = engine
    /\ IF made.exc # NoExc
       THEN /\ ret' = Raised(cls, Raise(M, made.exc))
            /\ UNCHANGED <<objs, lists>>
       ELSE /\ objs' = Append(objs, made.obj)
            /\ lists' = <<Append(lists[1], Len(objs) + 1)>>
            /\ ret' = Result(cls, cls, M, 0, made.obj.dimension, None, <<>>)

NewLine(maxRows, maxOddRows) ==
    \E normal_vector \in NormalArgs, constant_term \in Consts :
        LET made == LineInit(normal_vector, constant_term)
        IN  /\ Admits(made.obj, maxRows, maxOddRows)
            /\ NewHyperplane("Line", made)

NewPlane(maxRows, maxOddRows) ==
    \E normal_vector \in NormalArgs, constant_term \in Consts :
        LET made == PlaneInit(normal_vector, constant_term)
        IN  /\ Admits(made.obj, maxRows, maxOddRows)
            /\ NewHyperplane("Plane", made)

\* s = LinearSystem(planes)
Construct ==
    /\ engine = NoEngine
    /\ LET made == LinearSystemInit(M, 1)
       IN  IF made.exc # NoExc
           THEN /\ ret' = Raised("LinearSystem", Raise(M, made.exc))
                /\ engine' = engine
           ELSE /\ ret' = Result("LinearSystem", "LinearSystem", M, 1, made.sys.dimension, None, <<>>)
                /\ engine' = made.sys
    /\ UNCHANGED <<objs, lists, nops>>

\* a call on the engine that returns None: m is the machine state it leaves
Primitive(call, m) ==
    /\ objs' = Reachable(m, 0).objs
    /\ lists' = Reachable(m, 0).lists
    /\ ret' = IF m.exc # NoExc THEN Raised(call, m)
              ELSE Result(call, "None", m, 0, 0, None, <<>>)
    /\ nops' = nops + 1
    /\ engine' = engine

RowOpEnabled(maxOps) ==
    /\ engine # NoEngine
    /\ nops < maxOps
    /\ len(M, engine) <= MaxOpRows

SwapRows(maxOps) ==
    /\ RowOpEnabled(maxOps)
    /\ \E row1, row2 \in 0..(len(M, engine) - 1) :
           Primitive("swap_rows", swap_rows(M, engine, row1, row2))

MultiplyCoefficientAndRow(maxOps) ==
    /\ RowOpEnabled(maxOps)
    /\ \E coefficient \in OpCoefs, row \in 0..(len(M, engine) - 1) :
           Primitive("multiply_coefficient_and_row",
                     multiply_coefficient_and_row(M, engine, coefficient, row))

AddMultipleTimesRowToRow(maxOps) ==
    /\ RowOpEnabled(maxOps)
    /\ \E coefficient \in OpCoefs, row_to_add, row_to_be_added_to \in 0..(len(M, engine) - 1) :
           Primitive("add_multiple_times_row_to_row",
                     add_multiple_times_row_to_row(M, engine, coefficient,
                                                   row_to_add, row_to_be_added_to))

\* a call on the engine that returns a new system: r is [m, sys]
ReturnsSystem(call, r) ==
    LET kept == Reachable(r.m, IF r.m.exc # NoExc THEN 0 ELSE r.sys.planes)
    IN  /\ objs' = kept.objs
        /\ lists' = kept.lists
        /\ ret' = IF r.m.exc # NoExc THEN Raised(call, r.m)
                  ELSE Result(call, "LinearSystem", r.m, kept.planes, r.sys.dimension, None, <<>>)
        /\ UNCHANGED <<engine, nops>>

\* a call on the engine that returns a value or raises: r is [m, ret]
ReturnsValue(r) ==
    /\ objs' = Reachable(r.m, 0).objs
    /\ lists' = Reachable(r.m, 0).lists
    /\ ret' = r.ret
    /\ UNCHANGED <<engine, nops>>

ComputeTriangularForm ==
    /\ engine # NoEngine
    /\ ReturnsSystem("compute_triangular_form", compute_triangular_form(M, engine))

ComputeRref ==
    /\ engine # NoEngine
    /\ ReturnsSystem("compute_rref", compute_rref(M, engine))

ComputeSolution ==
    /\ engine # NoEngine
    /\ ReturnsValue(compute_solution(M, engine))

Next ==
    \/ NewLine(MaxOpRows, MaxOpRows)
    \/ NewPlane(MaxOpRows, MaxOpRows)
    \/ Construct
    \/ SwapRows(MaxOps)
    \/ MultiplyCoefficientAndRow(MaxOps)
    \/ AddMultipleTimesRowToRow(MaxOps)
    \/ ComputeTriangularForm
    \/ ComputeRref
    \/ ComputeSolution

Spec == Init /\ [][Next]_vars

\* the solver alone, on larger systems: the caller builds its list, constructs
\* the engine and calls compute_triangular_form, compute_rref, compute_solution
NextSolve ==
    \/ NewLine(MaxRows, MaxOddRows)
    \/ NewPlane(MaxRows, MaxOddRows)
    \/ Construct
    \/ ComputeTriangularForm
    \/ ComputeRref
    \/ ComputeSolution

SolveSpec == Init /\ [][NextSolve]_vars

\* the row primitives alone, called one after the other on a system of
\* Lines with 2-coordinate normals or of Planes with 3-coordinate normals
NextRows ==
    \/ NewLine(MaxOpRows, 0)
    \/ NewPlane(MaxOpRows, 0)
    \/ Construct
    \/ SwapRows(MaxSeqOps)
    \/ MultiplyCoefficientAndRow(MaxSeqOps)
    \/ AddMultipleTimesRowToRow(MaxSeqOps)

RowSpec == Init /\ [][NextRows]_vars

\* ------------------------------------------------- what the caller observes
\* the hyperplanes of the Python list with id l, in order
RowsOf(l) == [k \in 1..Len(lists[l]) |-> objs[lists[l][k]]]

\* the rows the engine holds (self.planes of the system the caller built)
EngineRows == RowsOf(engine.planes)

\* the last call returned a system (its rows are RowsOf(ret.planes))
Returned(call) == ret.call = call /\ ret.kind = "LinearSystem"

ReturnedRows == RowsOf(ret.planes)

ReturnedSystem == [planes |-> ret.planes, dimension |-> ret.dimension]

\* normal . x - constant_term, with Vector.dot; the point x solves the
\* equation of p when the residual is near zero
Residual(p, x) == RAdd(dot(p.normal_vector, x), RNeg(p.constant_term))

Solves(p, x) == is_near_zero(Residual(p, x))

\* ------------------------------------------------------------------- C1
\* C1: whenever compute_solution returns a Parametrization, its basepoint
\* solves every equation of the engine's system, and so does basepoint + d
\* for every returned direction vector d (residual below 1e-10).
C1_Resubstitution ==
    (ret.call = "compute_solution" /\ ret.kind = "Parametrization") =>
        \A k \in DOMAIN EngineRows :
            /\ Solves(EngineRows[k], ret.basepoint)
            /\ \A r \in DOMAIN ret.direction_vectors :
                   Solves(EngineRows[k], VecAdd(ret.basepoint, ret.direction_vectors[r]))

\* a Parametrization of a system of two different equations with non-zero
\* normals, with a non-zero basepoint and a direction vector that has a
\* non-zero pivot coordinate
C1_Witness ==
    /\ ret.call = "compute_solution" /\ ret.kind = "Parametrization"
    /\ Len(EngineRows) >= 2
    /\ EngineRows[1].normal_vector # EngineRows[2].normal_vector
    /\ \A k \in DOMAIN EngineRows : first_nonzero_index(EngineRows[k].normal_vector) >= 0
    /\ \E k \in DOMAIN ret.basepoint : ret.basepoint[k] # Zero
    /\ \E r \in DOMAIN ret.direction_vectors :
           Cardinality({k \in DOMAIN ret.direction_vectors[r] :
                            ret.direction_vectors[r][k] # Zero}) >= 2

\* ------------------------------------------------------------------- C2
\* the rows of the RREF of the engine's system hold a row without a pivot
\* whose constant term is not near zero
RrefHasContradictoryRow ==
    LET r == compute_rref(M, engine)
    IN  /\ r.m.exc = NoExc
        /\ raise_exception_if_contradictory_equations(r.m, r.sys).exc = NO_SOLUTIONS_MSG

\* C2: compute_solution never raises: on a system of Lines with 2-coordinate
\* normals or of Planes with 3-coordinate normals it returns NO_SOLUTIONS_MSG
\* exactly when the RREF holds a pivotless row with a constant term that is
\* not near zero, and a Parametrization in every other case.
C2_NoSolutionsIsAReturnValue ==
    (ret.call = "compute_solution" /\ WellFormed(EngineRows)) =>
        /\ ret.exc = NoExc
        /\ ret.kind = (IF RrefHasContradictoryRow THEN NO_SOLUTIONS_MSG ELSE "Parametrization")

\* ------------------------------------------------------------------- C3
\* the caller's list holds hyperplanes of different dimensions
MixedDimensions ==
    \E k, l \in DOMAIN RowsOf(1) : RowsOf(1)[k].dimension # RowsOf(1)[l].dimension

\* C3: LinearSystem(planes) over hyperplanes of different dimensions raises
\* ALL_PLANES_MUST_BE_IN_SAME_DIM_MSG; no engine exists and no elimination
\* step has run.
C3_DimensionMismatchAtConstruction ==
    /\ (ret.call = "LinearSystem" /\ MixedDimensions) =>
           /\ ret.exc = ALL_PLANES_MUST_BE_IN_SAME_DIM_MSG
           /\ engine = NoEngine
           /\ ret.divs = {}
    /\ MixedDimensions => engine = NoEngine

\* the constructor was called on a Line (dimension 2) together with a Plane
\* (dimension 3) and raised
C3_Witness ==
    /\ ret.call = "LinearSystem" /\ ret.exc = ALL_PLANES_MUST_BE_IN_SAME_DIM_MSG
    /\ \E k, l \in DOMAIN RowsOf(1) :
           RowsOf(1)[k].dimension = LineDimension /\ RowsOf(1)[l].dimension = PlaneDimension

\* ------------------------------------------------------------------- C4
\* the step is a call of compute_triangular_form, compute_rref or
\* compute_solution that returned (a system, a Parametrization or
\* NO_SOLUTIONS_MSG)
ComputeReturned ==
    /\ engine # NoEngine
    /\ ret'.call \in {"compute_triangular_form", "compute_rref", "compute_solution"}
    /\ ret'.exc = NoExc

\* C4: a compute_* call that returns leaves self.planes holding the same
\* hyperplane objects, with the same normals and constant terms, in the same
\* order; a returned system shares no row object with the engine.
C4_PrivateCopy ==
    [][ComputeReturned =>
          /\ engine' = engine
          /\ lists'[engine.planes] = lists[engine.planes]
          /\ \A k \in DOMAIN lists[engine.planes] :
                 objs'[lists[engine.planes][k]] = objs[lists[engine.planes][k]]
          /\ ret'.kind = "LinearSystem" =>
                 /\ ret'.planes # engine.planes
                 /\ \A k \in DOMAIN lists'[ret'.planes], l \in DOMAIN lists'[engine.planes] :
                        lists'[ret'.planes][k] # lists'[engine.planes][l]]_vars

\* compute_rref returned a system whose rows all differ from the engine's rows
C4_Witness ==
    /\ Returned("compute_rref")
    /\ Len(EngineRows) >= 2
    /\ \A k \in DOMAIN EngineRows :
           ReturnedRows[k].normal_vector # EngineRows[k].normal_vector

\* ----------------------------------------------- linear algebra, by minors
\* the elements of a set of integers in ascending order
Ascending(S) ==
    LET nth(r) == CHOOSE x \in S : Cardinality({y \in S : y <= x}) = r
    IN  [r \in 1..Cardinality(S) |-> nth(r)]

\* s without its j-th element
Without(s, j) == SubSeq(s, 1, j - 1) \o SubSeq(s, j + 1, Len(s))

RECURSIVE Det(_, _, _)
RECURSIVE Laplace(_, _, _, _)
\* expansion of the minor of A with rows rs and columns cs along its first
\* row, from column position j on
Laplace(A, rs, cs, j) ==
    IF j > Len(cs) THEN Zero
    ELSE RAdd(RMul(RMul(IF j % 2 = 1 THEN One ELSE RInt(-1), A[rs[1]][cs[j]]),
                   Det(A, Tail(rs), Without(cs, j))),
              Laplace(A, rs, cs, j + 1))

\* the determinant of the minor of A with rows rs and columns cs
Det(A, rs, cs) == IF rs = <<>> THEN One ELSE Laplace(A, rs, cs, 1)

\* the rank of the matrix A (a sequence of rows with ncols columns): the
\* size of its largest minor with a non-zero determinant
Rank(A, ncols) ==
    LET sizes == {k \in 0..Min(Len(A), ncols) :
                     \E R \in SUBSET (1..Len(A)), C \in SUBSET (1..ncols) :
                         /\ Cardinality(R) = k /\ Cardinality(C) = k
                         /\ Det(A, Ascending(R), Ascending(C)) # Zero}
    IN  CHOOSE k \in sizes : \A l \in sizes : l <= k

\* the coefficient matrix of rows with n-coordinate normals, and the matrix
\* augmented with the constant terms
Coefficients(rows) == [k \in DOMAIN rows |-> rows[k].normal_vector]

Augmented(rows) == [k \in DOMAIN rows |-> Append(rows[k].normal_vector, rows[k].constant_term)]

\* the equations of rows (n-coordinate normals) have a common solution
Consistent(rows, n) == Rank(Coefficients(rows), n) = Rank(Augmented(rows), n + 1)

\* ------------------------------------------------------------------- C5
\* what compute_solution hands back, the direction vectors as a set
Outcome(r) ==
    [kind |-> r.ret.kind, exc |-> r.ret.exc, basepoint |-> r.ret.basepoint,
     directions |-> {r.ret.direction_vectors[k] : k \in DOMAIN r.ret.direction_vectors}]

\* C5: for a system s (Lines with 2-coordinate normals or Planes with
\* 3-coordinate normals) whose triangular form was returned, compute_solution
\* of the triangular form and compute_solution of s both classify (as
\* NO_SOLUTIONS_MSG or as a Parametrization) and agree: same classification,
\* same basepoint, same set of direction vectors.
C5_TriangularFormPreservesSolutions ==
    (Returned("compute_triangular_form") /\ WellFormed(EngineRows)) =>
        /\ compute_solution(M, engine).ret.kind \in {NO_SOLUTIONS_MSG, "Parametrization"}
        /\ Outcome(compute_solution(M, ReturnedSystem)) = Outcome(compute_solution(M, engine))

\* ------------------------------------------------------------------- C6
\* the pivot column of a row: the index of its first coefficient that is
\* not near zero, -1 when it has none
Pivot(p) == first_nonzero_index(p.normal_vector)

\* the coefficient of row p in column c is near zero
ZeroAt(p, c) == c < Len(p.normal_vector) /\ is_near_zero(At(p.normal_vector, c))

\* every row below a row with a pivot in column c has a near-zero
\* coefficient in column c
TriangularShape(rows) ==
    \A i, k \in DOMAIN rows : (Pivot(rows[i]) >= 0 /\ k > i) => ZeroAt(rows[k], Pivot(rows[i]))

\* the rows of the sequence that have no pivot
Pivotless(rows) == {k \in DOMAIN rows : Pivot(rows[k]) < 0}

\* C6: in the system compute_triangular_form returns, every row below a row
\* with a pivot in column c has a near-zero coefficient in column c; as many
\* rows have an all-zero normal as the original rows are linearly dependent
\* (rows minus rank), and these rows all have constant term 0 exactly when
\* the original system is consistent.
C6_TriangularForm ==
    Returned("compute_triangular_form") =>
        /\ TriangularShape(ReturnedRows)
        /\ WellFormed(EngineRows) =>
               /\ Cardinality(Pivotless(ReturnedRows)) =
                      Len(EngineRows) - Rank(Coefficients(EngineRows), engine.dimension)
               /\ (\A k \in Pivotless(ReturnedRows) : is_near_zero(ReturnedRows[k].constant_term))
                      <=> Consistent(EngineRows, engine.dimension)

\* a triangular form of three rows in which elimination produced a row with
\* a pivot in a later column and reduced a dependent row to 0 = c, c # 0
C6_Witness ==
    /\ Returned("compute_triangular_form")
    /\ Len(ReturnedRows) = 3
    /\ \E i \in DOMAIN ReturnedRows :
           /\ Pivot(ReturnedRows[i]) = 1
           /\ ReturnedRows[i].normal_vector # EngineRows[i].normal_vector
    /\ \E k \in Pivotless(ReturnedRows) :
           /\ ~is_near_zero(ReturnedRows[k].constant_term)
           /\ Pivot(EngineRows[k]) >= 0

\* ------------------------------------------------------------------- C7
\* the rows of the triangular form of the engine's system
TriangularRows ==
    LET t == compute_triangular_form(M, engine)
    IN  [k \in 1..len(t.m, t.sys) |-> getitem(t.m, t.sys, k - 1)]

C8_RrefPivotsIncrease ==
    Returned("compute_rref") =>
        \A i, k \in DOMAIN ReturnedRows :
            (i < k /\ Pivot(ReturnedRows[i]) >= 0 /\ Pivot(ReturnedRows[k]) >= 0) =>
                Pivot(ReturnedRows[i]) < Pivot(ReturnedRows[k])

\* an RREF with pivots in columns 0 and 1 of a system whose first row had
\* no coefficient in column 0 (rows were swapped)
C8_Witness ==
    /\ Returned("compute_rref")
    /\ Len(ReturnedRows) >= 2
    /\ Pivot(ReturnedRows[1]) = 0 /\ Pivot(ReturnedRows[2]) = 1
    /\ Pivot(EngineRows[1]) > 0

\* ------------------------------------------------------------------- C9
\* C9: for a system s (Lines with 2-coordinate normals or Planes with
\* 3-coordinate normals), s.compute_rref() returns a system, and
\* compute_rref of that system returns a system with the same normals and
\* constant terms in the same order.
C9_RrefIdempotent ==
    (ret.call = "compute_rref" /\ WellFormed(EngineRows)) =>
        /\ Returned("compute_rref")
        /\ LET r == compute_rref(M, ReturnedSystem)
           IN  /\ r.m.exc = NoExc
               /\ \A k \in DOMAIN ReturnedRows :
                      /\ getitem(r.m, r.sys, k - 1).normal_vector = ReturnedRows[k].normal_vector
                      /\ getitem(r.m, r.sys, k - 1).constant_term = ReturnedRows[k].constant_term

\* ------------------------------------------------------------------ C10
\* the pivot columns of the RREF of the engine's system
RrefPivotColumns ==
    LET r == compute_rref(M, engine)
    IN  {first_nonzero_index(coordinates(r.m, r.sys, i)) : i \in 0..(len(r.m, r.sys) - 1)} \ {-1}

RrefFreeColumns == Ascending((0..(engine.dimension - 1)) \ RrefPivotColumns)

\* C10: for a consistent system (Lines with 2-coordinate normals or Planes
\* with 3-coordinate normals) compute_solution returns a Parametrization with
\* one direction vector per free column of the RREF, the vector of a free
\* column having 1 there and 0 at every other free column; it has no
\* direction vector exactly when every column has a pivot.
C10_OneDirectionPerFreeColumn ==
    (ret.call = "compute_solution" /\ WellFormed(EngineRows)
        /\ Consistent(EngineRows, engine.dimension)) =>
        /\ ret.kind = "Parametrization"
        /\ Len(ret.direction_vectors) = Len(RrefFreeColumns)
        /\ \A r, q \in DOMAIN RrefFreeColumns :
               At(ret.direction_vectors[r], RrefFreeColumns[q]) = (IF r = q THEN One ELSE Zero)
        /\ ret.direction_vectors = <<>> <=> RrefPivotColumns = 0..(engine.dimension - 1)

\* ------------------------------------------------------------------ C11
\* the engine holds three Lines with 2-coordinate normals: the trivial row
\* (all-zero normal, zero constant) and two linearly independent equations
TrivialRowAndTwoIndependent ==
    /\ engine # NoEngine
    /\ Len(EngineRows) = 3
    /\ WellFormed(EngineRows)
    /\ engine.dimension = LineDimension
    /\ \E t \in DOMAIN EngineRows :
           /\ Pivot(EngineRows[t]) < 0
           /\ is_near_zero(EngineRows[t].constant_term)
    /\ Rank(Coefficients(EngineRows), LineDimension) = LineDimension

\* C11: compute_solution on a system of three Lines made of the trivial row
\* and two linearly independent equations, in any row order, does not raise:
\* it returns a Parametrization with no direction vector whose basepoint
\* solves every row.
C11_TrivialRowIsHarmless ==
    (ret.call = "compute_solution" /\ TrivialRowAndTwoIndependent) =>
        /\ ret.kind = "Parametrization"
        /\ ret.direction_vectors = <<>>
        /\ \A k \in DOMAIN EngineRows : Solves(EngineRows[k], ret.basepoint)

\* ------------------------------------------------------------------ C12
\* the last call was one of the three row primitives
RowPrimitives == {"swap_rows", "multiply_coefficient_and_row", "add_multiple_times_row_to_row"}

\* every row of the engine has a normal with as many coordinates as the
\* system has dimensions
NormalsFitTheSystem ==
    \A k \in DOMAIN EngineRows : Len(EngineRows[k].normal_vector) = engine.dimension

\* C12: in a constructed system (rows with normals of the system's
\* dimension), after row primitives called with valid indices, every row's
\* dimension equals the system's dimension.
C12_RowsKeepTheSystemDimension ==
    (engine # NoEngine /\ NormalsFitTheSystem) =>
        \A k \in DOMAIN EngineRows : EngineRows[k].dimension = engine.dimension

\* ------------------------------------------------------------------ C13
\* C13: a hyperplane the caller has just constructed (Line or Plane, with
\* or without a normal vector, of any length) has a dimension equal to the
\* number of coordinates of its normal vector.
C13_DimensionIsTheNormalsDimension ==
    (ret.call \in {"Line", "Plane"} /\ ret.exc = NoExc) =>
        objs[Len(objs)].dimension = Len(objs[Len(objs)].normal_vector)

\* ------------------------------------------------------------------ C14
\* rows with the rows at positions i and j exchanged
Exchanged(rows, i, j) == [rows EXCEPT ![i] = rows[j], ![j] = rows[i]]

\* C14: a call of swap_rows with valid indices does not raise and leaves the
\* engine with the rows it had, two of them exchanged (the row count and
\* every other row unchanged).
C14_SwapRowsExchangesTwoRows ==
    [][ret'.call = "swap_rows" =>
           /\ ret'.exc = NoExc
           /\ \E i, j \in DOMAIN EngineRows : EngineRows' = Exchanged(EngineRows, i, j)]_vars

\* ------------------------------------------------------------------ C15
\* the engine's rows in the machine state m a call leaves
RowsAfter(m) == [k \in 1..len(m, engine) |-> getitem(m, engine, k - 1)]

\* rows and old have the same normals and constant terms, except that row
\* r of rows has the given normal and constant term
ReplacedRow(rows, old, r, normal_vector, constant_term) ==
    /\ Len(rows) = Len(old)
    /\ \A k \in DOMAIN old :
           /\ rows[k].normal_vector = (IF k = r THEN normal_vector ELSE old[k].normal_vector)
           /\ rows[k].constant_term = (IF k = r THEN constant_term ELSE old[k].constant_term)

\* the objects of the machine state M are still what they were in m
ObjectsKept(m) == \A o \in DOMAIN objs : m.objs[o] = objs[o]

\* C15: on a system of Lines with 2-coordinate normals or of Planes with
\* 3-coordinate normals, multiply_coefficient_and_row(c, r) returns with row
\* r equal to (normal_r * c, constant_r * c), and
\* add_multiple_times_row_to_row(c, src, tgt) with src # tgt returns with
\* row tgt equal to (normal_src * c + normal_tgt, constant_src * c +
\* constant_tgt); every other row and every hyperplane object that existed
\* before the call is unchanged.
C15_RowReplacement ==
    (engine # NoEngine /\ WellFormed(EngineRows)) =>
        \A c \in OpCoefs, r, tgt \in DOMAIN EngineRows :
            /\ LET m == multiply_coefficient_and_row(M, engine, c, r - 1)
               IN  /\ m.exc = NoExc
                   /\ ObjectsKept(m)
                   /\ ReplacedRow(RowsAfter(m), EngineRows, r,
                                  VecScale(EngineRows[r].normal_vector, c),
                                  RMul(EngineRows[r].constant_term, c))
            /\ r # tgt =>
                   LET m == add_multiple_times_row_to_row(M, engine, c, r - 1, tgt - 1)
                   IN  /\ m.exc = NoExc
                       /\ ObjectsKept(m)
                       /\ ReplacedRow(RowsAfter(m), EngineRows, tgt,
                                      VecAdd(VecScale(EngineRows[r].normal_vector, c),
                                             EngineRows[tgt].normal_vector),
                                      RAdd(RMul(EngineRows[r].constant_term, c),
                                           EngineRows[tgt].constant_term))

\* ------------------------------------------------------------------ C16
\* C16: when compute_triangular_form or compute_rref has run on a system of
\* dimension 3, whether it returned or raised, every divisor it used
\* (curr_coef in clear_coefficients_below / clear_coefficients_above, coef
\* in scale_row_to_make_coefficient_equal_to_one) was not near zero, and no
\* ZeroDivisionError was raised.
C16_NoDivisionByNearZero ==
    (ret.call \in {"compute_triangular_form", "compute_rref"}
        /\ engine.dimension = PlaneDimension) =>
        /\ ret.exc # ZeroDivisionError
        /\ \A d \in ret.divs : ~is_near_zero(d)

\* compute_rref returned on a system of three Planes whose first row had to
\* be swapped down, after clearing below a pivot and scaling by a divisor
\* other than 1
C16_Witness ==
    /\ Returned("compute_rref")
    /\ engine.dimension = PlaneDimension
    /\ Len(EngineRows) = 3
    /\ Pivot(EngineRows[1]) # 0
    /\ Pivot(ReturnedRows[1]) = 0
    /\ RInt(-1) \in ret.divs

\* ------------------------------------------------------------------ C17
\* C17: in the system compute_triangular_form or compute_rref returns, no
\* row without a pivot is followed by a row with a pivot.
C17_PivotlessRowsAtTheBottom ==
    (Returned("compute_triangular_form") \/ Returned("compute_rref")) =>
        \A i, k \in DOMAIN ReturnedRows :
            (i < k /\ Pivot(ReturnedRows[i]) < 0) => Pivot(ReturnedRows[k]) < 0

\* a triangular form of a system in which a pivotless row stood above a row
\* with a pivot
C17_Witness ==
    /\ Returned("compute_triangular_form")
    /\ \E i, k \in DOMAIN EngineRows :
           i < k /\ Pivot(EngineRows[i]) < 0 /\ Pivot(EngineRows[k]) >= 0
    /\ Pivot(ReturnedRows[1]) >= 0
    /\ Pivotless(ReturnedRows) # {}

====
